---- MODULE Spec2Model ----
(***************************************************************************)
(* A model of follow_up.py: the three-phase proposal follow-up pipeline    *)
(* (process_proposals, send_consolidated_emails, update_excel_sheets) run  *)
(* by main against yearly workbooks.                                       *)
(*                                                                         *)
(* Text is a sequence of one-character strings, a calendar date is its     *)
(* number of days since 1970-01-01, and a worksheet cell is a record       *)
(* [k, n, s]: k = "nan" (empty), "num" (number n), "text" (string s) or    *)
(* "ts" (a date cell, read by pandas as a Timestamp of day n).             *)
(***************************************************************************)
EXTENDS Integers, Sequences, FiniteSets, TLC

\* ------------------------------------------------------------------ text

UpperChars == <<"A","B","C","D","E","F","G","H","I","J","K","L","M",
                "N","O","P","Q","R","S","T","U","V","W","X","Y","Z">>
LowerChars == <<"a","b","c","d","e","f","g","h","i","j","k","l","m",
                "n","o","p","q","r","s","t","u","v","w","x","y","z">>
DigitChars == <<"0","1","2","3","4","5","6","7","8","9">>

IndexIn(c, seq) ==
    IF \E i \in 1..Len(seq) : seq[i] = c
    THEN CHOOSE i \in 1..Len(seq) : seq[i] = c
    ELSE 0

\* str.lower() and str.upper(), character by character.
LowerChar(c) == IF IndexIn(c, UpperChars) > 0 THEN LowerChars[IndexIn(c, UpperChars)] ELSE c
UpperChar(c) == IF IndexIn(c, LowerChars) > 0 THEN UpperChars[IndexIn(c, LowerChars)] ELSE c
Lower(s) == [i \in 1..Len(s) |-> LowerChar(s[i])]
Upper(s) == [i \in 1..Len(s) |-> UpperChar(s[i])]

\* str.strip(): leading and trailing blanks removed.
Strip(s) ==
    LET nb == {i \in 1..Len(s) : s[i] # " "}
    IN  IF nb = {} THEN <<>>
        ELSE LET lo == CHOOSE i \in nb : \A j \in nb : i <= j
                 hi == CHOOSE i \in nb : \A j \in nb : j <= i
             IN  SubSeq(s, lo, hi)

\* c in s
Contains(s, c) == \E i \in 1..Len(s) : s[i] = c

\* s.split()[0]: the first blank-separated word of a non-blank string.
FirstWord(s) ==
    LET t  == Strip(s)
        bl == {i \in 1..Len(t) : t[i] = " "}
    IN  IF bl = {} THEN t
        ELSE SubSeq(t, 1, (CHOOSE i \in bl : \A j \in bl : i <= j) - 1)

\* The decimal digits of a natural number, and an n-digit zero-padded field.
RECURSIVE Digits(_)
Digits(n) == IF n < 10 THEN <<DigitChars[n + 1]>>
             ELSE Digits(n \div 10) \o <<DigitChars[(n % 10) + 1]>>

RECURSIVE Padded(_, _)
Padded(n, width) == IF width = 0 THEN <<>>
                    ELSE Padded(n \div 10, width - 1) \o <<DigitChars[(n % 10) + 1]>>

IsDigits(s) == \A i \in 1..Len(s) : IndexIn(s[i], DigitChars) > 0

RECURSIVE DigitsValue(_)
DigitsValue(s) == IF s = <<>> THEN 0
                  ELSE 10 * DigitsValue(SubSeq(s, 1, Len(s) - 1))
                       + (IndexIn(s[Len(s)], DigitChars) - 1)

\* -------------------------------------------------------------- calendar

\* datetime.date(y, m, d) as days since 1970-01-01 (proleptic Gregorian).
DaysFromCivil(y, m, d) ==
    LET yy  == IF m <= 2 THEN y - 1 ELSE y
        era == yy \div 400
        yoe == yy - era * 400
        mp  == IF m > 2 THEN m - 3 ELSE m + 9
        doy == (153 * mp + 2) \div 5 + d - 1
        doe == yoe * 365 + yoe \div 4 - yoe \div 100 + doy
    IN  era * 146097 + doe - 719468

\* The (year, month, day) of a day number.
CivilFromDays(z) ==
    LET zz  == z + 719468
        era == zz \div 146097
        doe == zz - era * 146097
        yoe == (doe - doe \div 1460 + doe \div 36524 - doe \div 146096) \div 365
        doy == doe - (365 * yoe + yoe \div 4 - yoe \div 100)
        mp  == (5 * doy + 2) \div 153
        d   == doy - (153 * mp + 2) \div 5 + 1
        m   == IF mp < 10 THEN mp + 3 ELSE mp - 9
        y   == yoe + era * 400 + (IF m <= 2 THEN 1 ELSE 0)
    IN  [year |-> y, month |-> m, day |-> d]

IsLeap(y) == (y % 4 = 0 /\ y % 100 # 0) \/ y % 400 = 0
DaysInMonth(y, m) ==
    IF m = 2 THEN (IF IsLeap(y) THEN 29 ELSE 28)
    ELSE IF m \in {4, 6, 9, 11} THEN 30 ELSE 31

\* date.strftime('%m-%d-%Y')
StrfMDY(day) ==
    LET c == CivilFromDays(day)
    IN  Padded(c.month, 2) \o <<"-">> \o Padded(c.day, 2) \o <<"-">> \o Padded(c.year, 4)

\* EXCEL_DATE_OFFSET = datetime.datetime(1899, 12, 30)
EXCEL_DATE_OFFSET == DaysFromCivil(1899, 12, 30)
\* EXCEL_ROW_OFFSET = 2
EXCEL_ROW_OFFSET == 2

\* ----------------------------------------------------------------- cells

Nan     == [k |-> "nan",  n |-> 0, s |-> <<>>]
Num(n)  == [k |-> "num",  n |-> n, s |-> <<>>]
Text(s) == [k |-> "text", n |-> 0, s |-> s]
Ts(day) == [k |-> "ts",   n |-> day, s |-> <<>>]

\* pd.isna / pd.notna of a cell value
IsNa(cell) == cell.k = "nan"

\* A parsed date: NaT, or a Timestamp at midnight of day `day`.
NaT        == [ok |-> FALSE, day |-> 0]
Stamp(day) == [ok |-> TRUE,  day |-> day]

\* pd.to_datetime(text, errors='coerce') on the texts the stores hold: NN-NN-NNNN
\* is read month first, day first when only that is a date; any other text is NaT.
ParseDateText(s) ==
    IF Len(s) = 10 /\ s[3] = "-" /\ s[6] = "-"
       /\ IsDigits(SubSeq(s, 1, 2)) /\ IsDigits(SubSeq(s, 4, 5)) /\ IsDigits(SubSeq(s, 7, 10))
    THEN LET a == DigitsValue(SubSeq(s, 1, 2))
             b == DigitsValue(SubSeq(s, 4, 5))
             y == DigitsValue(SubSeq(s, 7, 10))
         IN  IF y >= 1 /\ a \in 1..12 /\ b >= 1 /\ b <= DaysInMonth(y, a)
             THEN Stamp(DaysFromCivil(y, a, b))
             ELSE IF y >= 1 /\ b \in 1..12 /\ a >= 1 /\ a <= DaysInMonth(y, b)
             THEN Stamp(DaysFromCivil(y, b, a))
             ELSE NaT
    ELSE NaT

\* pd.to_datetime(value, errors='coerce'): a number counts nanoseconds from
\* 1970-01-01, so the small numbers of a sheet fall on that day or the day before.
ToDatetime(cell) ==
    CASE cell.k = "nan"  -> NaT
      [] cell.k = "ts"   -> Stamp(cell.n)
      [] cell.k = "num"  -> Stamp(IF cell.n >= 0 THEN 0 ELSE -1)
      [] cell.k = "text" -> ParseDateText(cell.s)

excel_date_to_datetime(cell) ==
    IF cell.k = "num" /\ cell.n > 0
    THEN Stamp(EXCEL_DATE_OFFSET + cell.n)
    ELSE ToDatetime(cell)

\* str(value) of a cell value (a Timestamp prints as YYYY-MM-DD 00:00:00).
PyStr(cell) ==
    CASE cell.k = "nan"  -> <<"n", "a", "n">>
      [] cell.k = "text" -> cell.s
      [] cell.k = "num"  -> IF cell.n >= 0 THEN Digits(cell.n) ELSE <<"-">> \o Digits(-cell.n)
      [] cell.k = "ts"   -> LET c == CivilFromDays(cell.n)
                            IN  Padded(c.year, 4) \o <<"-">> \o Padded(c.month, 2) \o <<"-">>
                                \o Padded(c.day, 2)
                                \o <<" ","0","0",":","0","0",":","0","0">>

\* -------------------------------------------------------- configuration

\* config['Columns']: the header names of the ten required columns.
ColDateProposalSubmitted == "Date Submitted"
ColLastCorrespondence    == "Last Correspondence"
ColContactEmail          == "Contact Email"
ColContactName           == "Contact Name"
ColProjectName           == "Project Name"
ColValue                 == "Value"
ColWon                   == "Won"
ColLost                  == "Lost"
ColReBid                 == "Re-Bid"
ColFollowUpStage         == "Follow-Up Stage"

required_df_cols ==
    <<ColDateProposalSubmitted, ColLastCorrespondence, ColContactEmail, ColContactName,
      ColProjectName, ColValue, ColWon, ColLost, ColReBid, ColFollowUpStage>>

RequiredSet == {required_df_cols[i] : i \in 1..Len(required_df_cols)}

\* Settings.YearsToProcess, Settings.ValidMonths and Paths.Log<year>Path.
years_to_process  == <<"2024", "2025">>
valid_months_list == {"January", "February"}
LogPath(year)     == IF year = "2024" THEN "log2024.xlsx" ELSE "log2025.xlsx"
Paths             == {LogPath(years_to_process[i]) : i \in 1..Len(years_to_process)}

\* ------------------------------------------------- reading a workbook

\* A worksheet is [name, header, rows]: row 1 of the sheet is `header`, and
\* rows[i] holds the cells of sheet row i + 1, one per header column.
\* A workbook file is [exists, sheets].

KeptPositions(header) == {j \in 1..Len(header) : header[j] \in RequiredSet}

\* The j-th smallest member of a set of positions.
NthOf(S, j) == CHOOSE p \in S : Cardinality({q \in S : q < p}) = j - 1

\* pd.read_excel(..., usecols=lambda x: x in required_df_cols): every sheet as a
\* DataFrame holding only the required columns, in sheet order.
ReadSheet(sheet) ==
    LET keep == KeptPositions(sheet.header)
        n    == Cardinality(keep)
    IN  [name    |-> sheet.name,
         columns |-> [j \in 1..n |-> sheet.header[NthOf(keep, j)]],
         rows    |-> [i \in 1..Len(sheet.rows) |->
                        [j \in 1..n |-> sheet.rows[i][NthOf(keep, j)]]]]

ReadExcel(wb) == [i \in 1..Len(wb.sheets) |-> ReadSheet(wb.sheets[i])]

\* df.columns.get_loc(name): the 0-based position of a column of the DataFrame.
GetLoc(columns, name) == IndexIn(name, columns) - 1

\* row[name]
RowGet(columns, row, name) == row[IndexIn(name, columns)]

\* ------------------------------------------------------ process_proposals

\* int(value): a number as it is, a text of digits as its value; an empty cell
\* (NaN), any other text and a Timestamp raise.
IntOf(cell) ==
    CASE cell.k = "num"  -> [ok |-> TRUE, n |-> cell.n]
      [] cell.k = "text" -> IF Strip(cell.s) # <<>> /\ IsDigits(Strip(cell.s))
                            THEN [ok |-> TRUE, n |-> DigitsValue(Strip(cell.s))]
                            ELSE [ok |-> FALSE, n |-> 0]
      [] OTHER           -> [ok |-> FALSE, n |-> 0]

\* bool(value): a zero and an empty text are falsy, NaN is not.
Truthy(cell) == ~(cell.k = "num" /\ cell.n = 0) /\ ~(cell.k = "text" /\ cell.s = <<>>)

\* str(row.get(ContactEmail, "") or "").strip().lower()
ContactEmailOf(cell) == IF Truthy(cell) THEN Lower(Strip(PyStr(cell))) ELSE <<>>

\* A variant that asks for the "@" only.
EmailRejectedByAtOnly(email) == email = <<>> \/ ~Contains(email, "@")

\* not contact_email or "@" not in contact_email or "." not in contact_email
EmailRejected(email) == email = <<>> \/ ~Contains(email, "@") \/ ~Contains(email, ".")

\* str(value).strip().upper() == "X"
IsMarked(cell) == Upper(Strip(PyStr(cell))) = <<"X">>

\* A variant that forgets the re-bid flag.
HasDispositionNoReBid(columns, row) ==
    \/ IsMarked(RowGet(columns, row, ColWon))
    \/ IsMarked(RowGet(columns, row, ColLost))

HasDisposition(columns, row) ==
    \/ IsMarked(RowGet(columns, row, ColWon))
    \/ IsMarked(RowGet(columns, row, ColLost))
    \/ IsMarked(RowGet(columns, row, ColReBid))

\* The last-correspondence date of a row: None (ok = FALSE) for an empty cell
\* and for a value that does not parse.
LastCorrespondenceDate(cell) ==
    IF IsNa(cell) THEN NaT ELSE excel_date_to_datetime(cell)

\* f"{n:,.2f}" of a whole, non-negative amount.
RECURSIVE Grouped3(_)
Grouped3(n) == IF n < 1000 THEN Digits(n)
               ELSE Grouped3(n \div 1000) \o <<",">> \o Padded(n % 1000, 3)

ValueStr(cell) ==
    CASE cell.k = "nan"  -> <<>>
      [] cell.k = "num"  -> IF cell.n >= 0 THEN Grouped3(cell.n) \o <<".", "0", "0">>
                            ELSE <<"-">> \o Grouped3(-cell.n) \o <<".", "0", "0">>
      [] cell.k = "text" -> IF Strip(cell.s) = <<>> THEN <<>> ELSE Strip(cell.s)
      [] cell.k = "ts"   -> Strip(PyStr(cell))

FirstName(cell) ==
    IF Strip(PyStr(cell)) = <<>> THEN <<"t","h","e","r","e">> ELSE FirstWord(PyStr(cell))

\* Variants of the decision: a strict first threshold; a template index that
\* follows the stage instead of saturating; a stage >= 1 without a last
\* correspondence falling back to the submission date.
DecideStrict(cfg, today, follow_up_stage, submission_day, last_corr) ==
    IF follow_up_stage = 0
    THEN LET relevant == IF last_corr.ok THEN last_corr.day ELSE submission_day
         IN  IF today - relevant > cfg.DaysFirstFollowUp
             THEN [ready |-> TRUE,  template_index |-> 0,  anomaly |-> FALSE]
             ELSE [ready |-> FALSE, template_index |-> -1, anomaly |-> FALSE]
    ELSE IF follow_up_stage > 0 /\ last_corr.ok
    THEN IF today - last_corr.day >= cfg.DaysSubsequentFollowUps
         THEN [ready |-> TRUE, template_index |-> IF follow_up_stage = 1 THEN 1 ELSE 2,
               anomaly |-> FALSE]
         ELSE [ready |-> FALSE, template_index |-> -1, anomaly |-> FALSE]
    ELSE [ready |-> FALSE, template_index |-> -1, anomaly |-> follow_up_stage > 0]

DecideUnsaturated(cfg, today, follow_up_stage, submission_day, last_corr) ==
    IF follow_up_stage = 0
    THEN LET relevant == IF last_corr.ok THEN last_corr.day ELSE submission_day
         IN  IF today - relevant >= cfg.DaysFirstFollowUp
             THEN [ready |-> TRUE,  template_index |-> 0,  anomaly |-> FALSE]
             ELSE [ready |-> FALSE, template_index |-> -1, anomaly |-> FALSE]
    ELSE IF follow_up_stage > 0 /\ last_corr.ok
    THEN IF today - last_corr.day >= cfg.DaysSubsequentFollowUps
         THEN [ready |-> TRUE, template_index |-> follow_up_stage, anomaly |-> FALSE]
         ELSE [ready |-> FALSE, template_index |-> -1, anomaly |-> FALSE]
    ELSE [ready |-> FALSE, template_index |-> -1, anomaly |-> follow_up_stage > 0]

DecideFallback(cfg, today, follow_up_stage, submission_day, last_corr) ==
    LET relevant == IF last_corr.ok THEN last_corr.day ELSE submission_day
    IN  IF follow_up_stage = 0
        THEN IF today - relevant >= cfg.DaysFirstFollowUp
             THEN [ready |-> TRUE,  template_index |-> 0,  anomaly |-> FALSE]
             ELSE [ready |-> FALSE, template_index |-> -1, anomaly |-> FALSE]
        ELSE IF follow_up_stage > 0
        THEN IF today - relevant >= cfg.DaysSubsequentFollowUps
             THEN [ready |-> TRUE, template_index |-> IF follow_up_stage = 1 THEN 1 ELSE 2,
                   anomaly |-> FALSE]
             ELSE [ready |-> FALSE, template_index |-> -1, anomaly |-> FALSE]
        ELSE [ready |-> FALSE, template_index |-> -1, anomaly |-> FALSE]

\* The follow-up decision of lines 206-230 for a stage and the two dates:
\* [ready, template_index, anomaly].
Decide(cfg, today, follow_up_stage, submission_day, last_corr) ==
    IF follow_up_stage = 0
    THEN LET relevant == IF last_corr.ok THEN last_corr.day ELSE submission_day
         IN  IF today - relevant >= cfg.DaysFirstFollowUp
             THEN [ready |-> TRUE,  template_index |-> 0,  anomaly |-> FALSE]
             ELSE [ready |-> FALSE, template_index |-> -1, anomaly |-> FALSE]
    ELSE IF follow_up_stage > 0
    THEN IF last_corr.ok
         THEN IF today - last_corr.day >= cfg.DaysSubsequentFollowUps
              THEN [ready |-> TRUE,
                    template_index |-> IF follow_up_stage = 1 THEN 1 ELSE 2,
                    anomaly |-> FALSE]
              ELSE [ready |-> FALSE, template_index |-> -1, anomaly |-> FALSE]
         ELSE [ready |-> FALSE, template_index |-> -1, anomaly |-> TRUE]
    ELSE [ready |-> FALSE, template_index |-> -1, anomaly |-> FALSE]

NoCandidate ==
    [project_name |-> <<>>, submission_date_str |-> <<>>, value_str |-> <<>>,
     contact_first_name |-> <<>>, row_index_df |-> -1, sheet_name |-> "",
     workbook_path |-> "", new_follow_up_stage |-> 0, email_snippet_key |-> -1,
     last_correspondence_col_df_idx |-> -1, follow_up_stage_col_df_idx |-> -1]

\* One pass of the row loop (lines 176-260) over row `index` of a DataFrame:
\* [outcome, email, stage, cand], where outcome is how the row left the loop:
\* "invalid_date", "invalid_email", "disposition", "error" (the row raised and
\* was logged), "no_last_correspondence", "not_due" or "queued".
ProcessRow(cfg, today, path, sheet_name, columns, index, row) ==
    LET submission == excel_date_to_datetime(RowGet(columns, row, ColDateProposalSubmitted))
        email      == ContactEmailOf(RowGet(columns, row, ColContactEmail))
        stage      == IntOf(RowGet(columns, row, ColFollowUpStage))
        last_corr  == LastCorrespondenceDate(RowGet(columns, row, ColLastCorrespondence))
        d          == Decide(cfg, today, stage.n, submission.day, last_corr)
        out(o, s)  == [outcome |-> o, email |-> email, stage |-> s, cand |-> NoCandidate]
    IN  IF ~submission.ok \/ CivilFromDays(submission.day).year < 2000
            THEN out("invalid_date", -1)
        ELSE IF EmailRejected(email) THEN out("invalid_email", -1)
        ELSE IF HasDisposition(columns, row) THEN out("disposition", -1)
        ELSE IF ~stage.ok THEN out("error", -1)
        ELSE IF d.anomaly THEN out("no_last_correspondence", stage.n)
        ELSE IF ~d.ready THEN out("not_due", stage.n)
        ELSE [outcome |-> "queued", email |-> email, stage |-> stage.n,
              cand |->
                [project_name        |-> PyStr(RowGet(columns, row, ColProjectName)),
                 submission_date_str |-> StrfMDY(submission.day),
                 value_str           |-> ValueStr(RowGet(columns, row, ColValue)),
                 contact_first_name  |-> FirstName(RowGet(columns, row, ColContactName)),
                 row_index_df        |-> index,
                 sheet_name          |-> sheet_name,
                 workbook_path       |-> path,
                 new_follow_up_stage |-> stage.n + 1,
                 email_snippet_key   |-> d.template_index,
                 last_correspondence_col_df_idx |-> GetLoc(columns, ColLastCorrespondence),
                 follow_up_stage_col_df_idx     |-> GetLoc(columns, ColFollowUpStage)]]

\* Lines 150-161: a sheet is scanned when its name is a valid month and its
\* DataFrame has every required column.
SheetScanned(df) ==
    /\ df.name \in valid_months_list
    /\ \A c \in RequiredSet : IndexIn(c, df.columns) > 0

\* The rows the loops of lines 127-176 visit, in order: years, then the sheets
\* of the year's workbook, then the rows of the sheet (index counts from 0).
SheetJobs(path, df) ==
    IF SheetScanned(df)
    THEN [i \in 1..Len(df.rows) |->
            [path |-> path, sheet_name |-> df.name, columns |-> df.columns,
             index |-> i - 1, row |-> df.rows[i]]]
    ELSE <<>>

\* A variant in which a month sheet lacking a column ends the scan of its workbook.
RECURSIVE WorkbookJobsUntilIncomplete(_, _, _)
WorkbookJobsUntilIncomplete(path, dfs, k) ==
    IF k > Len(dfs) \/ (dfs[k].name \in valid_months_list /\ ~SheetScanned(dfs[k])) THEN <<>>
    ELSE SheetJobs(path, dfs[k]) \o WorkbookJobsUntilIncomplete(path, dfs, k + 1)

RECURSIVE WorkbookJobs(_, _, _)
WorkbookJobs(path, dfs, k) ==
    IF k > Len(dfs) THEN <<>>
    ELSE SheetJobs(path, dfs[k]) \o WorkbookJobs(path, dfs, k + 1)

RECURSIVE RowJobs(_, _)
RowJobs(files, y) ==
    IF y > Len(years_to_process) THEN <<>>
    ELSE LET path == LogPath(years_to_process[y])
         IN  (IF files[path].exists
              THEN WorkbookJobs(path, ReadExcel(files[path]), 1)
              ELSE <<>>)
             \o RowJobs(files, y + 1)

\* What the scan decides for every visited row, in visiting order.
ScanLog(cfg, today, files) ==
    LET jobs == RowJobs(files, 1)
    IN  [i \in 1..Len(jobs) |->
            [path |-> jobs[i].path, sheet_name |-> jobs[i].sheet_name,
             index |-> jobs[i].index,
             res |-> ProcessRow(cfg, today, jobs[i].path, jobs[i].sheet_name,
                                jobs[i].columns, jobs[i].index, jobs[i].row)]]

\* grouped_follow_ups.setdefault(contact_email, []).append(proposal_details), on
\* an insertion-ordered mapping kept as a sequence of [email, proposals].
SetDefaultAppend(grouped, email, cand) ==
    IF \E i \in 1..Len(grouped) : grouped[i].email = email
    THEN [i \in 1..Len(grouped) |->
            IF grouped[i].email = email
            THEN [grouped[i] EXCEPT !.proposals = Append(@, cand)]
            ELSE grouped[i]]
    ELSE Append(grouped, [email |-> email, proposals |-> <<cand>>])

\* A variant in which a row that raises ends the scan.
RECURSIVE GroupQueuedUntilError(_, _, _)
GroupQueuedUntilError(log, i, grouped) ==
    IF i > Len(log) \/ log[i].res.outcome = "error" THEN grouped
    ELSE GroupQueuedUntilError(log, i + 1,
                               IF log[i].res.outcome = "queued"
                               THEN SetDefaultAppend(grouped, log[i].res.email, log[i].res.cand)
                               ELSE grouped)

RECURSIVE GroupQueued(_, _, _)
GroupQueued(log, i, grouped) ==
    IF i > Len(log) THEN grouped
    ELSE GroupQueued(log, i + 1,
                     IF log[i].res.outcome = "queued"
                     THEN SetDefaultAppend(grouped, log[i].res.email, log[i].res.cand)
                     ELSE grouped)

\* process_proposals(config, today_date): the mapping it returns.
process_proposals(cfg, today, files) == GroupQueued(ScanLog(cfg, today, files), 1, <<>>)

\* ----------------------------------------------- send_consolidated_emails

\* A variant that takes the two-project template for every list of two or more.
SubjectLineTwoOrMore(proposals_list) ==
    LET project_names == [i \in 1..Len(proposals_list) |-> proposals_list[i].project_name]
    IN  IF Len(project_names) = 1
        THEN [template |-> "SingleProject", names |-> <<project_names[1]>>]
        ELSE [template |-> "TwoProjects", names |-> <<project_names[1], project_names[2]>>]

\* Lines 289-296: the subject template picked by the number of projects, and
\* the project names its placeholders take.
SubjectLine(proposals_list) ==
    LET project_names == [i \in 1..Len(proposals_list) |-> proposals_list[i].project_name]
    IN  IF Len(project_names) = 1
        THEN [template |-> "SingleProject", names |-> <<project_names[1]>>]
        ELSE IF Len(project_names) = 2
        THEN [template |-> "TwoProjects", names |-> <<project_names[1], project_names[2]>>]
        ELSE [template |-> "MultipleProjects", names |-> <<project_names[1]>>]

\* Lines 302-311: one list item per proposal, in list order; the value part is
\* there only for a non-empty value_str.
BodyItems(proposals_list) ==
    [i \in 1..Len(proposals_list) |->
        [project_name        |-> proposals_list[i].project_name,
         submission_date_str |-> proposals_list[i].submission_date_str,
         has_value_info      |-> proposals_list[i].value_str # <<>>,
         value_str           |-> proposals_list[i].value_str,
         snippet             |-> proposals_list[i].email_snippet_key]]

\* Lines 288-318: the message composed for one recipient of the mapping.
Render(b) ==
    [to       |-> b.email,
     subject  |-> SubjectLine(b.proposals),
     greeting |-> b.proposals[1].contact_first_name,
     items    |-> BodyItems(b.proposals)]

\* ------------------------------------------------------- update helpers

\* updates_by_workbook's keys (lines 369-371): the workbook paths of the
\* notified proposals, in order of first appearance.
RECURSIVE WorkbookOrder(_, _, _)
WorkbookOrder(updates, i, acc) ==
    IF i > Len(updates) THEN acc
    ELSE WorkbookOrder(updates, i + 1,
                       IF \E j \in 1..Len(acc) : acc[j] = updates[i].workbook_path
                       THEN acc
                       ELSE Append(acc, updates[i].workbook_path))

ProposalsInWb(updates, path) ==
    SelectSeq(updates, LAMBDA u : u.workbook_path = path)

SheetNames(wb) == {wb.sheets[i].name : i \in 1..Len(wb.sheets)}

\* The two ws.cell(row, column, value) calls of lines 397-402 for one proposal.
LastCorrWrite(u, today) ==
    [path   |-> u.workbook_path, sheet |-> u.sheet_name,
     row    |-> u.row_index_df + EXCEL_ROW_OFFSET,
     column |-> u.last_correspondence_col_df_idx + 1,
     value  |-> Text(StrfMDY(today))]

StageWrite(u) ==
    [path   |-> u.workbook_path, sheet |-> u.sheet_name,
     row    |-> u.row_index_df + EXCEL_ROW_OFFSET,
     column |-> u.follow_up_stage_col_df_idx + 1,
     value  |-> Num(u.new_follow_up_stage)]

\* ws.cell(..., value=...) raises on a cell that lies inside a merged range
\* (openpyxl keeps such a cell read-only); on any other cell it returns.
WriteRaises(wb, w) ==
    \E k \in 1..Len(wb.sheets) : /\ wb.sheets[k].name = w.sheet
                                 /\ <<w.row, w.column>> \in wb.sheets[k].merged

\* The ws.cell calls of the try block of lines 400-405 that return for one
\* proposal: the first call raising leaves the second unmade.
ItemWrites(wb, u, today) ==
    IF WriteRaises(wb, LastCorrWrite(u, today)) THEN {}
    ELSE IF WriteRaises(wb, StageWrite(u)) THEN {LastCorrWrite(u, today)}
    ELSE {LastCorrWrite(u, today), StageWrite(u)}

\* A variant in which one missing sheet abandons the updates of the workbook.
CellWritesWholeStore(wb, items, today) ==
    IF \E j \in 1..Len(items) : items[j].sheet_name \notin SheetNames(wb) THEN {}
    ELSE UNION {ItemWrites(wb, items[i], today) : i \in 1..Len(items)}

\* The ws.cell calls of the sheet loop (lines 389-405) that return, on a loaded
\* workbook: the proposals of a sheet the workbook does not have are skipped.
CellWrites(wb, items, today) ==
    UNION {ItemWrites(wb, items[i], today) :
              i \in {j \in 1..Len(items) : items[j].sheet_name \in SheetNames(wb)}}

\* The proposals whose cell update raised and was logged at line 405.
CellErrorItems(wb, items, today) ==
    {items[i] : i \in {j \in 1..Len(items) :
                          /\ items[j].sheet_name \in SheetNames(wb)
                          /\ \/ WriteRaises(wb, LastCorrWrite(items[j], today))
                             \/ WriteRaises(wb, StageWrite(items[j]))}}

\* The workbook after the calls: sheet row r is rows[r - 1], column c its c-th cell.
ApplyWrites(wb, writes) ==
    [wb EXCEPT !.sheets =
        [k \in 1..Len(wb.sheets) |->
            [wb.sheets[k] EXCEPT !.rows =
                [i \in 1..Len(wb.sheets[k].rows) |->
                    [j \in 1..Len(wb.sheets[k].rows[i]) |->
                        LET hit == {w \in writes : /\ w.sheet = wb.sheets[k].name
                                                   /\ w.row = i + 1
                                                   /\ w.column = j}
                        IN  IF hit = {} THEN wb.sheets[k].rows[i][j]
                            ELSE (CHOOSE w \in hit : TRUE).value]]]]]

\* The "DRY RUN: Would update Excel" line of lines 376-378 for one proposal.
WouldUpdateLine(u) ==
    [path |-> u.workbook_path, sheet |-> u.sheet_name,
     excel_row |-> u.row_index_df + EXCEL_ROW_OFFSET,
     project |-> u.project_name, new_stage |-> u.new_follow_up_stage]

\* ------------------------------------------------------------ the state

VARIABLES
    files,            \* path -> workbook file on disk
    today,            \* today_date of the running main
    cfg,              \* the [Settings] the run reads
    run,              \* which invocation of main this is
    pc,               \* where main is
    outlook,          \* the global `outlook`: "unset" (never assigned), "none" or "app"
    scan_log,         \* what process_proposals decided per row in this run
    grouped,          \* collected_follow_ups
    bucket,           \* position of the recipient loop of send_consolidated_emails
    attempt,          \* attempts made for the current recipient
    successful,       \* successful_sends_for_excel_update
    wb_queue,         \* workbooks update_excel_sheets has still to visit
    delivered,        \* recipients whose mail.Send() returned, in order
    dropped,          \* recipients given up after the last attempt
    transport_calls,  \* Outlook calls made in this run (Dispatch and send attempts)
    cell_writes,      \* ws.cell calls that returned in this run
    cell_errors,      \* proposals whose ws.cell call raised in this run
    saved,            \* workbooks saved in this run
    backups,          \* path -> contents copied to path.bak in this run
    would_send,       \* recipients of the "DRY RUN: Would send" lines
    would_update,     \* the "DRY RUN: Would update Excel" lines
    crashed,          \* main's except clause was entered
    files0,           \* the files when this run started
    prev_saved,       \* the proposals the previous run notified and saved
    prev_today,       \* today_date of the previous run
    probe,            \* what the first row of the scan-only inputs encodes
    rendered,         \* the messages the recipient loop has composed in this run
    update_log,       \* how the try block of each visited workbook ended in this run
    lock_file,        \* the lock file exists
    inst              \* instance of main -> where it is and what it has run

vars == <<files, today, cfg, run, pc, outlook, scan_log, grouped, bucket, attempt,
          successful, wb_queue, delivered, dropped, transport_calls, cell_writes,
          cell_errors, saved, backups, would_send, would_update, crashed, files0, prev_saved,
          prev_today, probe, rendered, update_log, lock_file, inst>>

\* ------------------------------------------------------------- inputs

MaxRuns == 2

\* today_date of the first run: two days before a year ends, so that later
\* runs write and read dates on both sides of the year's end.
Today0 == DaysFromCivil(2025, 12, 30)

ColNotes == "Notes"

\* Column layouts of a sheet: exactly the ten required columns, one more column
\* to their right, one more column to their left, and one more column to their
\* left with the last-correspondence and stage columns coming first.
LayoutTen   == <<ColProjectName, ColContactName, ColContactEmail, ColDateProposalSubmitted,
                 ColValue, ColFollowUpStage, ColLastCorrespondence, ColWon, ColLost, ColReBid>>
LayoutRight == LayoutTen \o <<ColNotes>>
LayoutLeft  == <<ColNotes>> \o LayoutTen
LayoutLeftDatesFirst ==
    <<ColNotes, ColLastCorrespondence, ColFollowUpStage, ColProjectName, ColContactName,
      ColContactEmail, ColDateProposalSubmitted, ColValue, ColWon, ColLost, ColReBid>>
Layouts     == {LayoutTen, LayoutRight, LayoutLeft, LayoutLeftDatesFirst}

EmailA      == <<"a", "@", "x", ".", "c", "o">>
EmailAMixed == <<" ", "A", "@", "X", ".", "c", "o", " ">>
EmailB      == <<"b", "@", "x", ".", "c", "o">>
EmailNoDot  == <<"c", "@", "x", "c", "o">>
EmailNoAt   == <<"c", ".", "x", "c", "o">>
MarkX       == <<"X">>
MarkLowerX  == <<" ", "x", " ">>
MarkNo      == <<"n", "o">>
Garbage     == <<"T", "B", "D">>

\* A row as a mapping from column name to cell, and laid out under a header.
RowOf(date, last, email, stage, won, lost, rebid, project) ==
    [c \in RequiredSet \cup {ColNotes} |->
        CASE c = ColDateProposalSubmitted -> date
          [] c = ColLastCorrespondence    -> last
          [] c = ColContactEmail          -> email
          [] c = ColContactName           -> Text(<<"A", "n", "n", " ", "L", "e", "e">>)
          [] c = ColProjectName           -> Text(project)
          [] c = ColValue                 -> Num(12500)
          [] c = ColWon                   -> won
          [] c = ColLost                  -> lost
          [] c = ColReBid                 -> rebid
          [] c = ColFollowUpStage         -> stage
          [] c = ColNotes                 -> Text(<<"m", "e", "m", "o">>)]

RowCells(header, rec) == [j \in 1..Len(header) |-> rec[header[j]]]

\* A sheet: its header row, its data rows (sheet row i + 1 is rows[i]) and the
\* <<row, column>> positions that lie inside a merged range without being its
\* anchor. Such a cell holds no value, and pandas reads it as NaN.
Sheet(name, header, recs, merged) ==
    [name |-> name, header |-> header, merged |-> merged,
     rows |-> [i \in 1..Len(recs) |->
                 [j \in 1..Len(header) |->
                     IF <<i + 1, j>> \in merged THEN Nan
                     ELSE RowCells(header, recs[i])[j]]]]

\* The serial number Excel stores for a day.
Serial(day) == day - EXCEL_DATE_OFFSET

\* Rows of the pipeline runs (thresholds: first 7 days, subsequent 1 day).
RowA0(p)  == RowOf(Ts(Today0 - 10), Nan, Text(EmailA), Num(0), Nan, Nan, Nan, p)
RowA1(p)  == RowOf(Ts(Today0 - 30), Text(StrfMDY(Today0 - 1)), Text(EmailAMixed), Num(1),
                   Nan, Nan, Nan, p)
RowB2(p)  == RowOf(Num(Serial(Today0 - 30)), Ts(Today0 - 5), Text(EmailB), Num(2),
                   Nan, Nan, Nan, p)
RowB0(p)  == RowOf(Ts(Today0 - 6), Nan, Text(EmailB), Num(0), Nan, Nan, Nan, p)
RowWon(p) == RowOf(Ts(Today0 - 10), Nan, Text(EmailA), Num(0), Text(MarkX), Nan, Nan, p)
RowNoStage(p) == RowOf(Ts(Today0 - 10), Nan, Text(EmailB), Nan, Nan, Nan, Nan, p)

P1 == <<"P", "1">>
P2 == <<"P", "2">>
P3 == <<"P", "3">>
P4 == <<"P", "4">>

Slot1 == {RowA0(P1), RowWon(P1)}
Slot2 == {RowA1(P2), RowB2(P2), RowB0(P2)}
Slot3 == {RowB2(P3), RowNoStage(P3)}

\* Merged cells in the first data row of the 2024 January sheet: none, the
\* row's last-correspondence cell, or its value cell.
MergedChoices(header) ==
    {{}, {<<2, IndexIn(ColLastCorrespondence, header)>>}, {<<2, IndexIn(ColValue, header)>>}}

PipelineFiles(header, r1, r2, r3, merged) ==
    [p \in Paths |->
        IF p = LogPath("2024")
        THEN [exists |-> TRUE,
              sheets |-> <<Sheet("January", header, <<r1, r2>>, merged),
                           Sheet("Summary", header, <<RowA0(P4)>>, {})>>]
        ELSE [exists |-> TRUE,
              sheets |-> <<Sheet("January", header, <<r3>>, {})>>]]

PipelineSettings ==
    [DryRun : BOOLEAN, DaysFirstFollowUp : {7}, DaysSubsequentFollowUps : {1},
     MaxEmailSendAttempts : {1, 3}, BackupExcelBeforeSave : {TRUE}]

NoProbe == [sub |-> "nan", sub_day |-> 0, last |-> "nan", last_day |-> 0,
            email |-> "nan", flag |-> "none", stage_kind |-> "nan", stage |-> 0]

NoBackups == [p \in Paths |-> [made |-> FALSE, sheets |-> <<>>]]

\* The pipeline runs of one main say nothing of other instances.
NoInstances == <<>>

\* The state of main once the lock is held, before initialize_outlook.
RunStart ==
    /\ pc = "initialize_outlook"
    /\ outlook = "unset"
    /\ scan_log = <<>>
    /\ grouped = <<>>
    /\ bucket = 0
    /\ attempt = 0
    /\ successful = <<>>
    /\ wb_queue = <<>>
    /\ delivered = <<>>
    /\ dropped = {}
    /\ transport_calls = 0
    /\ cell_writes = {}
    /\ cell_errors = {}
    /\ saved = {}
    /\ backups = NoBackups
    /\ would_send = <<>>
    /\ would_update = <<>>
    /\ crashed = FALSE
    /\ rendered = <<>>
    /\ update_log = <<>>

Init ==
    /\ \E header \in Layouts, r1 \in Slot1, r2 \in Slot2, r3 \in Slot3 :
          \E merged \in MergedChoices(header) :
              files = PipelineFiles(header, r1, r2, r3, merged)
    /\ cfg \in PipelineSettings
    /\ today = Today0
    /\ run = 1
    /\ files0 = files
    /\ prev_saved = {}
    /\ prev_today = Today0
    /\ probe = NoProbe
    /\ lock_file = TRUE
    /\ inst = NoInstances
    /\ RunStart

\* ------------------------------------------------------------ actions

\* A variant that initialises Outlook in a dry run too.
SkipsOutlookNever(settings) == FALSE

\* Line 74: initialize_outlook returns at once in a dry run.
SkipsOutlook(settings) == settings.DryRun

\* initialize_outlook (lines 71-99). In a dry run the global `outlook` is left
\* as it was: the module never assigns it elsewhere. Otherwise Dispatch either
\* yields the application or raises, and line 99 sets outlook = None.
MainInitializeOutlook ==
    /\ pc = "initialize_outlook"
    /\ UNCHANGED <<rendered, update_log>>
    /\ IF SkipsOutlook(cfg)
       THEN UNCHANGED <<outlook, transport_calls>>
       ELSE /\ \E available \in BOOLEAN : outlook' = IF available THEN "app" ELSE "none"
            /\ transport_calls' = transport_calls + 1
    /\ pc' = "process_proposals"
    /\ UNCHANGED <<files, today, cfg, run, scan_log, grouped, bucket, attempt, successful,
                   wb_queue, delivered, dropped, cell_writes, cell_errors, saved, backups,
                   would_send, would_update, crashed, files0, prev_saved, prev_today, probe, lock_file, inst>>

\* collected_follow_ups = process_proposals(config, today_date) (line 458)
MainProcessProposals ==
    /\ pc = "process_proposals"
    /\ UNCHANGED <<rendered, update_log>>
    /\ scan_log' = ScanLog(cfg, today, files)
    /\ grouped' = process_proposals(cfg, today, files)
    /\ pc' = "send_consolidated_emails"
    /\ UNCHANGED <<files, today, cfg, run, outlook, bucket, attempt, successful, wb_queue,
                   delivered, dropped, transport_calls, cell_writes, cell_errors, saved,
                   backups, would_send, would_update, crashed, files0, prev_saved,
                   prev_today, probe, lock_file, inst>>

\* Line 271 reads the global `outlook`: a name that was never assigned raises
\* NameError, which main catches at line 461 (the remaining phases are skipped).
OutlookUnbound(handle) == handle = "unset"

\* A variant without the early return of lines 271-273.
SendReturnsEarlyOnEmpty(handle, settings, collected) == collected = <<>>

\* Lines 271-276: the two early returns of send_consolidated_emails.
SendReturnsEarly(handle, settings, collected) ==
    \/ (handle # "app" /\ ~settings.DryRun)
    \/ collected = <<>>

\* send_consolidated_emails up to its recipient loop (lines 265-285).
SendEnter ==
    /\ pc = "send_consolidated_emails"
    /\ UNCHANGED <<rendered, update_log>>
    /\ IF OutlookUnbound(outlook)
       THEN /\ crashed' = TRUE
            /\ pc' = "done"
            /\ UNCHANGED <<bucket, attempt>>
       ELSE IF SendReturnsEarly(outlook, cfg, grouped)
       THEN /\ pc' = "update_excel_sheets"
            /\ UNCHANGED <<bucket, attempt, crashed>>
       ELSE /\ bucket' = 1
            /\ attempt' = 0
            /\ pc' = "send_loop"
            /\ UNCHANGED crashed
    /\ UNCHANGED <<files, today, cfg, run, outlook, scan_log, grouped, successful, wb_queue,
                   delivered, dropped, transport_calls, cell_writes, cell_errors, saved,
                   backups, would_send, would_update, files0, prev_saved, prev_today,
                   probe, lock_file, inst>>

\* A variant whose retry loop runs once too often.
RetryAllowedOnceMore(made, settings) == made <= settings.MaxEmailSendAttempts

\* Line 333 and line 348: after `made` failed attempts another one follows.
RetryAllowed(made, settings) == made < settings.MaxEmailSendAttempts

\* A variant that returns the bucket whether or not it was sent.
AfterAttemptsAlways(list, proposals_list, sent_successfully) == list \o proposals_list

\* Lines 353-354: the returned list after the retry loop of one recipient.
AfterAttempts(list, proposals_list, sent_successfully) ==
    IF sent_successfully THEN list \o proposals_list ELSE list

\* One step of the recipient loop (lines 287-355) for grouped[bucket]: the dry-run
\* branch of lines 320-324, or one pass of the retry loop of lines 333-351.
SendBucket ==
    /\ pc = "send_loop"
    /\ rendered' = IF attempt = 0 THEN Append(rendered, Render(grouped[bucket])) ELSE rendered
    /\ UNCHANGED update_log
    /\ LET b    == grouped[bucket]
           next == /\ bucket' = bucket + 1
                   /\ attempt' = 0
                   /\ pc' = IF bucket = Len(grouped) THEN "update_excel_sheets" ELSE "send_loop"
       IN  IF cfg.DryRun
           THEN /\ would_send' = Append(would_send, b.email)
                /\ successful' = successful \o b.proposals
                /\ next
                /\ UNCHANGED <<delivered, dropped, transport_calls>>
           ELSE IF ~RetryAllowed(0, cfg)
           THEN /\ next
                /\ UNCHANGED <<would_send, successful, delivered, dropped, transport_calls>>
           ELSE \E sent \in BOOLEAN :
                /\ transport_calls' = transport_calls + 1
                /\ UNCHANGED would_send
                /\ IF sent
                   THEN /\ delivered' = Append(delivered, b.email)
                        /\ successful' = AfterAttempts(successful, b.proposals, TRUE)
                        /\ next
                        /\ UNCHANGED dropped
                   ELSE IF RetryAllowed(attempt + 1, cfg)
                   THEN /\ attempt' = attempt + 1
                        /\ UNCHANGED <<bucket, pc, delivered, dropped, successful>>
                   ELSE /\ dropped' = dropped \cup {b.email}
                        /\ successful' = AfterAttempts(successful, b.proposals, FALSE)
                        /\ next
                        /\ UNCHANGED delivered
    /\ UNCHANGED <<files, today, cfg, run, outlook, scan_log, grouped, wb_queue, cell_writes,
                   cell_errors, saved, backups, would_update, crashed, files0, prev_saved,
                   prev_today, probe, lock_file, inst>>

\* update_excel_sheets up to its workbook loop (lines 360-371).
UpdateEnter ==
    /\ pc = "update_excel_sheets"
    /\ UNCHANGED <<rendered, update_log>>
    /\ IF successful = <<>>
       THEN /\ pc' = "done"
            /\ UNCHANGED wb_queue
       ELSE /\ wb_queue' = WorkbookOrder(successful, 1, <<>>)
            /\ pc' = "update_loop"
    /\ UNCHANGED <<files, today, cfg, run, outlook, scan_log, grouped, bucket, attempt,
                   successful, delivered, dropped, transport_calls, cell_writes,
                   cell_errors, saved, backups, would_send, would_update, crashed, files0,
                   prev_saved, prev_today, probe, lock_file, inst>>

\* A variant that never copies the file.
BackupTakenNever(settings, file) == FALSE

\* Line 383: a backup is taken when the setting is on and the file is there.
BackupTaken(settings, file) == settings.BackupExcelBeforeSave /\ file.exists

\* How the try block of lines 381-417 can end for one workbook: shutil.copy2,
\* load_workbook or wb.save raise, or the workbook is saved.
UpdateOutcomes(settings, file) ==
    (IF BackupTaken(settings, file) THEN {"backup_error"} ELSE {})
    \cup {"load_error"}
    \cup (IF file.exists THEN {"save_error", "saved"} ELSE {})

\* The workbook was loaded, so the sheet loop of lines 389-405 ran.
SheetLoopRan(outcome) == outcome \in {"save_error", "saved"}

\* One pass of the workbook loop (lines 373-417) for the first workbook of wb_queue.
UpdateWorkbook ==
    /\ pc = "update_loop"
    /\ UNCHANGED rendered
    /\ LET path   == Head(wb_queue)
           items  == ProposalsInWb(successful, path)
       IN  IF cfg.DryRun
           THEN /\ would_update' = would_update \o
                                   [i \in 1..Len(items) |-> WouldUpdateLine(items[i])]
                /\ UNCHANGED <<files, cell_writes, cell_errors, saved, backups, update_log>>
           ELSE \E outcome \in UpdateOutcomes(cfg, files[path]) :
                LET writes == CellWrites(files[path], items, today) IN
                /\ UNCHANGED would_update
                /\ update_log' = Append(update_log, [path |-> path, outcome |-> outcome])
                /\ cell_errors' = IF SheetLoopRan(outcome)
                                  THEN cell_errors \cup CellErrorItems(files[path], items, today)
                                  ELSE cell_errors
                /\ backups' = IF BackupTaken(cfg, files[path]) /\ outcome # "backup_error"
                              THEN [backups EXCEPT ![path] =
                                       [made |-> TRUE, sheets |-> files[path].sheets]]
                              ELSE backups
                /\ cell_writes' = IF SheetLoopRan(outcome)
                                  THEN cell_writes \cup writes
                                  ELSE cell_writes
                /\ saved' = IF outcome = "saved" THEN saved \cup {path} ELSE saved
                /\ files' = IF outcome = "saved"
                            THEN [files EXCEPT ![path] = ApplyWrites(@, writes)]
                            ELSE files
    /\ wb_queue' = Tail(wb_queue)
    /\ pc' = IF Tail(wb_queue) = <<>> THEN "done" ELSE "update_loop"
    /\ UNCHANGED <<today, cfg, run, outlook, scan_log, grouped, bucket, attempt, successful,
                   delivered, dropped, transport_calls, would_send, crashed, files0,
                   prev_saved, prev_today, probe, lock_file, inst>>

DayGaps == {0, 1}

\* A later invocation of main (line 438 reads the date again): the same day or
\* the next one, against the files the earlier run left.
NextRun ==
    /\ pc = "done"
    /\ run < MaxRuns
    /\ run' = run + 1
    /\ \E gap \in DayGaps : today' = today + gap
    /\ files0' = files
    /\ prev_saved' = {successful[i] : i \in {j \in 1..Len(successful) :
                                               successful[j].workbook_path \in saved}}
    /\ prev_today' = today
    /\ pc' = "initialize_outlook"
    /\ outlook' = "unset"
    /\ scan_log' = <<>>
    /\ grouped' = <<>>
    /\ bucket' = 0
    /\ attempt' = 0
    /\ successful' = <<>>
    /\ wb_queue' = <<>>
    /\ delivered' = <<>>
    /\ dropped' = {}
    /\ transport_calls' = 0
    /\ cell_writes' = {}
    /\ cell_errors' = {}
    /\ saved' = {}
    /\ backups' = NoBackups
    /\ would_send' = <<>>
    /\ would_update' = <<>>
    /\ crashed' = FALSE
    /\ rendered' = <<>>
    /\ update_log' = <<>>
    /\ UNCHANGED <<files, cfg, probe, lock_file, inst>>

Next ==
    \/ MainInitializeOutlook
    \/ MainProcessProposals
    \/ SendEnter
    \/ SendBucket
    \/ UpdateEnter
    \/ UpdateWorkbook
    \/ NextRun

Spec == Init /\ [][Next]_vars

\* ------------------------------------------- inputs of the scan alone

\* A date cell as a sheet can hold it: a date-formatted cell, Excel's serial
\* number, the text strftime('%m-%d-%Y') writes; or no date at all.
DateEncodings == {"ts", "serial", "text"}
EncodeDate(kind, day) ==
    CASE kind = "ts"      -> Ts(day)
      [] kind = "serial"  -> Num(Serial(day))
      [] kind = "text"    -> Text(StrfMDY(day))
      [] kind = "nan"     -> Nan
      [] kind = "garbage" -> Text(Garbage)
      [] kind = "old"     -> Ts(DaysFromCivil(1999, 12, 31))

EncodeEmail(kind) ==
    CASE kind = "a"     -> Text(EmailA)
      [] kind = "mixed" -> Text(EmailAMixed)
      [] kind = "nan"   -> Nan
      [] kind = "nodot" -> Text(EmailNoDot)
      [] kind = "noat"  -> Text(EmailNoAt)
      [] kind = "blank" -> Text(<<" ", " ">>)

EncodeStage(kind, n) == IF kind = "nan" THEN Nan ELSE Num(n)

SubmissionAges == {20, 10, 7, 6}
LastAges       == {20, 14, 13, 7, 6}

Probes ==
    {pr \in [sub : DateEncodings \cup {"nan", "garbage", "old"}, sub_day : {Today0 - a : a \in SubmissionAges},
             last : {"ts", "text", "nan", "garbage"}, last_day : {Today0 - a : a \in LastAges},
             email : {"a", "mixed", "nan", "nodot", "noat", "blank"},
             flag : {"none", "won", "lost", "rebid", "other"},
             stage_kind : {"num", "nan"}, stage : {0, 1, 2, 4}] :
        /\ pr.sub \notin DateEncodings => pr.sub_day = Today0 - 10
        /\ pr.last \notin DateEncodings => pr.last_day = Today0 - 20
        /\ pr.stage_kind = "nan" => pr.stage = 0}

ProbeRow(pr) ==
    RowOf(EncodeDate(pr.sub, pr.sub_day), EncodeDate(pr.last, pr.last_day),
          EncodeEmail(pr.email), EncodeStage(pr.stage_kind, pr.stage),
          IF pr.flag = "won" THEN Text(MarkX) ELSE IF pr.flag = "other" THEN Text(MarkNo) ELSE Nan,
          IF pr.flag = "lost" THEN Text(MarkLowerX) ELSE Nan,
          IF pr.flag = "rebid" THEN Text(MarkX) ELSE Nan,
          P1)

\* The row after the probe: a stage-0 proposal submitted ten days ago.
RowFollower == RowOf(Ts(Today0 - 10), Nan, Text(EmailB), Num(0), Nan, Nan, Nan, P2)

ScanFiles(header, pr) ==
    [p \in Paths |->
        IF p = LogPath("2024")
        THEN [exists |-> TRUE,
              sheets |-> <<Sheet("January", header, <<ProbeRow(pr), RowFollower>>, {})>>]
        ELSE [exists |-> FALSE, sheets |-> <<>>]]

ScanSettings ==
    [DryRun : {FALSE}, DaysFirstFollowUp : {7}, DaysSubsequentFollowUps : {14},
     MaxEmailSendAttempts : {3}, BackupExcelBeforeSave : {TRUE}]

InitScan ==
    /\ probe \in Probes
    /\ files = ScanFiles(LayoutRight, probe)
    /\ cfg \in ScanSettings
    /\ today = Today0
    /\ run = 1
    /\ files0 = files
    /\ prev_saved = {}
    /\ prev_today = Today0
    /\ lock_file = TRUE
    /\ inst = NoInstances
    /\ RunStart

\* main up to the end of the scan.
NextScan ==
    \/ MainInitializeOutlook
    \/ MainProcessProposals

SpecScan == InitScan /\ [][NextScan]_vars

\* ---------------------------- inputs with several sections per store

\* Layouts that lack one required column.
LayoutNoValue == SelectSeq(LayoutRight, LAMBDA c : c # ColValue)
LayoutNoStage == SelectSeq(LayoutRight, LAMBDA c : c # ColFollowUpStage)
FebruaryLayouts == {LayoutRight, LayoutNoValue, LayoutNoStage}

\* A stage-2 proposal of recipient a, last contacted five days ago.
RowA2(p) == RowOf(Ts(Today0 - 30), Ts(Today0 - 5), Text(EmailA), Num(2), Nan, Nan, Nan, p)

P5 == <<"P", "5">>
P6 == <<"P", "6">>

\* The 2024 workbook holds the sheets February, January and Summary, in that
\* order, the 2025 workbook the sheets February and January; every row with a stage
\* is due on Today0.
StoresFiles(february_header, r2, r3) ==
    [p \in Paths |->
        IF p = LogPath("2024")
        THEN [exists |-> TRUE,
              sheets |-> <<Sheet("February", february_header, <<RowA0(P1)>>, {}),
                           Sheet("January", LayoutRight, <<r2, RowB2(P5)>>, {}),
                           Sheet("Summary", LayoutRight, <<RowA0(P4)>>, {})>>]
        ELSE [exists |-> TRUE,
              sheets |-> <<Sheet("February", LayoutRight, <<RowA2(P6)>>, {}),
                           Sheet("January", LayoutRight, <<r3>>, {})>>]]

StoresSettings ==
    [DryRun : {FALSE}, DaysFirstFollowUp : {7}, DaysSubsequentFollowUps : {1},
     MaxEmailSendAttempts : {2}, BackupExcelBeforeSave : {TRUE}]

InitStores ==
    /\ \E february_header \in FebruaryLayouts :
       \E r2 \in {RowA1(P2), RowB2(P2), RowNoStage(P2)}, r3 \in {RowA2(P3), RowB2(P3)} :
          files = StoresFiles(february_header, r2, r3)
    /\ cfg \in StoresSettings
    /\ today = Today0
    /\ run = 1
    /\ files0 = files
    /\ prev_saved = {}
    /\ prev_today = Today0
    /\ probe = NoProbe
    /\ lock_file = TRUE
    /\ inst = NoInstances
    /\ RunStart

\* The sheets someone may delete while the program runs: the first one of
\* each workbook.
RemovableSheets ==
    {[path |-> LogPath("2024"), sheet_name |-> "February"],
     [path |-> LogPath("2025"), sheet_name |-> "February"]}

\* load_workbook at line 388 reads the file anew, so what someone did to it
\* since the scan is seen by lines 390-392: here a sheet is deleted between the
\* send phase and the update phase.
ExternalRemoveSheet ==
    /\ pc = "update_excel_sheets"
    /\ \E d \in RemovableSheets :
          /\ d.sheet_name \in SheetNames(files[d.path])
          /\ files' = [files EXCEPT ![d.path].sheets =
                           SelectSeq(@, LAMBDA sh : sh.name # d.sheet_name)]
    /\ UNCHANGED <<today, cfg, run, pc, outlook, scan_log, grouped, bucket, attempt,
                   successful, wb_queue, delivered, dropped, transport_calls, cell_writes,
                   cell_errors, saved, backups, would_send, would_update, crashed, files0,
                   prev_saved, prev_today, probe, rendered, update_log, lock_file, inst>>

\* One invocation of main over these stores.
NextStores ==
    \/ MainInitializeOutlook
    \/ MainProcessProposals
    \/ SendEnter
    \/ SendBucket
    \/ UpdateEnter
    \/ UpdateWorkbook
    \/ ExternalRemoveSheet

SpecStores == InitStores /\ [][NextStores]_vars

\* ------------------------------------- instances of main and the lock

\* Two invocations of main may be alive at once; each has its own globals.
Instances == {1, 2}

\* The calls of main's try block (lines 457-460), in order.
PhaseOrder == <<"initialize_outlook", "process_proposals", "send_consolidated_emails",
                "update_excel_sheets">>
Phases == {PhaseOrder[k] : k \in 1..Len(PhaseOrder)}

\* An instance about to call create_lock_file (line 452). `started` lists the
\* phases it has entered, `raised` the phase that raised ("" when none did),
\* `remove_raised` whether os.remove raised in remove_lock_file.
Fresh(invocation) ==
    [pc |-> "create_lock_file", lock_file_handle |-> FALSE, started |-> <<>>,
     raised |-> "", remove_raised |-> FALSE, invocation |-> invocation]

pipeline_vars == <<files, today, cfg, run, pc, outlook, scan_log, grouped, bucket, attempt,
                   successful, wb_queue, delivered, dropped, transport_calls, cell_writes,
                   cell_errors, saved, backups, would_send, would_update, crashed, files0,
                   prev_saved, prev_today, probe, rendered, update_log>>

InitLock ==
    /\ lock_file = FALSE
    /\ inst = [i \in Instances |-> Fresh(1)]
    /\ files = [p \in Paths |-> [exists |-> FALSE, sheets |-> <<>>]]
    /\ cfg \in ScanSettings
    /\ today = Today0
    /\ run = 1
    /\ files0 = files
    /\ prev_saved = {}
    /\ prev_today = Today0
    /\ probe = NoProbe
    /\ RunStart

\* A variant that opens the lock file for writing, whether or not it exists.
LockAcquiredAnyway(exists, io_error) == ~io_error

\* create_lock_file (lines 29-38): open(path, 'x') creates the file only when it
\* does not exist (FileExistsError otherwise), and may fail with another IOError.
LockAcquired(exists, io_error) == ~exists /\ ~io_error

\* Lines 452-454: create_lock_file, and sys.exit(1) when it returns False.
MainCreateLockFile(i) ==
    /\ inst[i].pc = "create_lock_file"
    /\ \E io_error \in BOOLEAN :
          IF LockAcquired(lock_file, io_error)
          THEN /\ lock_file' = TRUE
               /\ inst' = [inst EXCEPT ![i].pc = PhaseOrder[1], ![i].lock_file_handle = TRUE]
          ELSE /\ inst' = [inst EXCEPT ![i].pc = "exit_1"]
               /\ UNCHANGED lock_file
    /\ UNCHANGED pipeline_vars

\* A variant whose phases each sit in a try block of their own.
AfterPhaseCarryOn(phase, raises) ==
    IF phase = PhaseOrder[Len(PhaseOrder)] THEN "finally"
    ELSE PhaseOrder[IndexIn(phase, PhaseOrder) + 1]

\* Lines 456-463: where main goes after a phase: to the next call of the try
\* block, or to the finally clause when the phase raised or was the last.
AfterPhase(phase, raises) ==
    IF raises \/ phase = PhaseOrder[Len(PhaseOrder)] THEN "finally"
    ELSE PhaseOrder[IndexIn(phase, PhaseOrder) + 1]

\* One call of the try block of lines 456-460: it returns or raises.
MainPhase(i) ==
    /\ inst[i].pc \in Phases
    /\ \E raises \in BOOLEAN :
          inst' = [inst EXCEPT ![i].started = Append(@, inst[i].pc),
                               ![i].raised  = IF raises /\ @ = "" THEN inst[i].pc ELSE @,
                               ![i].pc      = AfterPhase(inst[i].pc, raises)]
    /\ UNCHANGED lock_file
    /\ UNCHANGED pipeline_vars

\* The finally clause (line 464) and remove_lock_file (lines 40-51): the handle
\* is closed, and the file, when it exists, is removed unless os.remove raises
\* the IOError that line 50 catches.
MainFinally(i) ==
    /\ inst[i].pc = "finally"
    /\ IF lock_file
       THEN \E remove_raises \in BOOLEAN :
               /\ lock_file' = remove_raises
               /\ inst' = [inst EXCEPT ![i].pc = "done", ![i].lock_file_handle = FALSE,
                                       ![i].remove_raised = remove_raises]
       ELSE /\ UNCHANGED lock_file
            /\ inst' = [inst EXCEPT ![i].pc = "done", ![i].lock_file_handle = FALSE]
    /\ UNCHANGED pipeline_vars

\* The script is started again after it has ended.
MainAgain(i) ==
    /\ inst[i].pc \in {"done", "exit_1"}
    /\ inst[i].invocation < MaxRuns
    /\ inst' = [inst EXCEPT ![i] = Fresh(inst[i].invocation + 1)]
    /\ UNCHANGED lock_file
    /\ UNCHANGED pipeline_vars

NextLock ==
    \E i \in Instances :
        \/ MainCreateLockFile(i)
        \/ MainPhase(i)
        \/ MainFinally(i)
        \/ MainAgain(i)

SpecLock == InitLock /\ [][NextLock]_vars

\* =================================================================
\* Properties
\* =================================================================

\* process_proposals has returned in this run.
Scanned == pc \notin {"initialize_outlook", "process_proposals"}

\* The candidates of a mapping, in the order the recipient loop meets them.
RECURSIVE Flatten(_, _)
Flatten(g, i) == IF i > Len(g) THEN <<>> ELSE g[i].proposals \o Flatten(g, i + 1)

\* The candidate emitted for a row of a sheet, if any.
CandidatesFor(g, path, sheet_name, index) ==
    {c \in {Flatten(g, 1)[k] : k \in 1..Len(Flatten(g, 1))} :
        c.workbook_path = path /\ c.sheet_name = sheet_name /\ c.row_index_df = index}

Emitted(g, path, sheet_name, index) == CandidatesFor(g, path, sheet_name, index) # {}

\* The probe is row 0 of sheet January of the 2024 workbook, its follower row 1.
ProbeEmitted    == Emitted(grouped, LogPath("2024"), "January", 0)
ProbeCandidate  == CHOOSE c \in CandidatesFor(grouped, LogPath("2024"), "January", 0) : TRUE
FollowerEmitted == Emitted(grouped, LogPath("2024"), "January", 1)

ProbeHasDate      == probe.sub \in DateEncodings
ProbeHasLast      == probe.last \in DateEncodings
ProbeUsableEmail  == probe.email \in {"a", "mixed"}
ProbeFlagged      == probe.flag \in {"won", "lost", "rebid"}
ProbeAcceptable   == ProbeHasDate /\ ProbeUsableEmail /\ ~ProbeFlagged /\ probe.stage_kind = "num"

\* C1: a record with the won, lost or re-bid flag set is never emitted as a
\* candidate by process_proposals, whatever its dates, stage and email are.
C1_FlaggedNeverEmitted ==
    (Scanned /\ ProbeFlagged) => ~ProbeEmitted

\* A lost proposal that is otherwise due (stage 0, submitted ten days ago) was
\* scanned and left out, while the row after it was queued.
C1_Witness ==
    /\ Scanned
    /\ probe.flag = "lost" /\ probe.sub = "ts" /\ probe.sub_day = Today0 - 10
    /\ probe.last = "nan" /\ probe.email = "a" /\ probe.stage_kind = "num" /\ probe.stage = 0
    /\ scan_log[1].res.outcome = "disposition"
    /\ FollowerEmitted

\* C6: a stage-0 record with a valid submission date, a usable email and no
\* disposition flag is emitted iff today minus its reference date (the last
\* correspondence date when there is one, else the submission date) is at least
\* DaysFirstFollowUp days; the candidate has snippet index 0 and next stage 1.
C6_FirstFollowUp ==
    (Scanned /\ ProbeAcceptable /\ probe.stage = 0) =>
        LET reference == IF ProbeHasLast THEN probe.last_day ELSE probe.sub_day
        IN  /\ ProbeEmitted <=> (today - reference >= cfg.DaysFirstFollowUp)
            /\ ProbeEmitted => /\ ProbeCandidate.email_snippet_key = 0
                               /\ ProbeCandidate.new_follow_up_stage = 1

\* A stage-0 record submitted six days ago whose last correspondence, written as
\* text, is exactly seven days old was emitted with snippet 0.
C6_Witness ==
    /\ Scanned /\ ProbeAcceptable /\ probe.stage = 0
    /\ probe.sub_day = Today0 - 6 /\ probe.last = "text" /\ probe.last_day = Today0 - 7
    /\ ProbeEmitted
    /\ ProbeCandidate.email_snippet_key = 0

\* C7: an acceptable record with stage s >= 1 and a last-correspondence date d is
\* emitted iff today - d >= DaysSubsequentFollowUps; its snippet index is 1 for
\* s = 1 and 2 for every s >= 2, and its next stage is s + 1.
C7_SubsequentFollowUp ==
    (Scanned /\ ProbeAcceptable /\ probe.stage >= 1 /\ ProbeHasLast) =>
        /\ ProbeEmitted <=> (today - probe.last_day >= cfg.DaysSubsequentFollowUps)
        /\ ProbeEmitted => /\ ProbeCandidate.email_snippet_key = IF probe.stage = 1 THEN 1 ELSE 2
                           /\ ProbeCandidate.new_follow_up_stage = probe.stage + 1

\* A stage-4 record last contacted twenty days ago was emitted with snippet 2
\* and next stage 5.
C7_Witness ==
    /\ Scanned /\ ProbeAcceptable /\ probe.stage = 4
    /\ probe.last = "ts" /\ probe.last_day = Today0 - 20
    /\ ProbeEmitted
    /\ ProbeCandidate.email_snippet_key = 2
    /\ ProbeCandidate.new_follow_up_stage = 5

\* C8: a record with stage >= 1 and no last-correspondence date (none, or none
\* that parses) is never emitted, process_proposals still returns, and the row
\* after it is still evaluated.
C8_StageWithoutLastCorrespondence ==
    (Scanned /\ probe.stage_kind = "num" /\ probe.stage >= 1 /\ ~ProbeHasLast) =>
        /\ ~ProbeEmitted
        /\ ~crashed
        /\ pc = "send_consolidated_emails"
        /\ Len(scan_log) = 2
        /\ scan_log[2].res.outcome = "queued"
        /\ FollowerEmitted

\* A stage-2 record, otherwise acceptable and submitted twenty days ago, whose
\* last correspondence cell does not parse was logged as the anomaly and skipped.
C8_Witness ==
    /\ Scanned /\ ProbeAcceptable /\ probe.stage = 2
    /\ probe.sub_day = Today0 - 20 /\ probe.last = "garbage"
    /\ scan_log[1].res.outcome = "no_last_correspondence"
    /\ FollowerEmitted

RunOver == pc = "done"
LiveRun == ~cfg.DryRun
Range(seq) == {seq[i] : i \in 1..Len(seq)}

\* update_excel_sheets called ws.cell on the sheet row of candidate c in this run.
RowWritten(c) ==
    \E w \in cell_writes : /\ w.path = c.workbook_path
                           /\ w.sheet = c.sheet_name
                           /\ w.row = c.row_index_df + EXCEL_ROW_OFFSET

\* The cell of a file at a sheet row and column (row 1 is the header).
SheetNamed(file, name) == CHOOSE sh \in Range(file.sheets) : sh.name = name
CellAt(file, name, row, column) == SheetNamed(file, name).rows[row - 1][column]

\* The sheet row of candidate c is, on disk, as it was when the run started.
RowUntouched(c) ==
    SheetNamed(files[c.workbook_path], c.sheet_name).rows[c.row_index_df + 1]
        = SheetNamed(files0[c.workbook_path], c.sheet_name).rows[c.row_index_df + 1]

\* Both values update_excel_sheets writes for c are in the file on disk.
RowPersisted(c) ==
    /\ CellAt(files[c.workbook_path], c.sheet_name, c.row_index_df + EXCEL_ROW_OFFSET,
              c.last_correspondence_col_df_idx + 1) = Text(StrfMDY(today))
    /\ CellAt(files[c.workbook_path], c.sheet_name, c.row_index_df + EXCEL_ROW_OFFSET,
              c.follow_up_stage_col_df_idx + 1) = Num(c.new_follow_up_stage)

C3_DryRunTouchesNothing ==
    cfg.DryRun =>
        /\ transport_calls = 0
        /\ cell_writes = {}
        /\ cell_errors = {}
        /\ saved = {}
        /\ backups = NoBackups
        /\ files = files0

\* A dry run that scanned candidates for two recipients has ended.
C3_Witness ==
    /\ cfg.DryRun /\ RunOver
    /\ Len(grouped) = 2

\* C4 as claimed: at the end of a dry run send_consolidated_emails has returned
\* every scanned candidate and update_excel_sheets has logged one would-update
\* line for each of them.
C4_AsClaimed ==
    (cfg.DryRun /\ RunOver) =>
        /\ successful = Flatten(grouped, 1)
        /\ Len(would_update) = Len(successful)
        /\ \A c \in Range(successful) : WouldUpdateLine(c) \in Range(would_update)

\* The entry of this run's scan for the sheet row of candidate c.
ScanEntry(c) ==
    CHOOSE e \in Range(scan_log) : /\ e.path = c.workbook_path
                                   /\ e.sheet_name = c.sheet_name
                                   /\ e.index = c.row_index_df

\* C5 as claimed: a candidate scanned with stage s, notified in a live run and
\* saved, is read by the scan of the next day with stage s + 1, for every column
\* layout of its sheet.
C5_AsClaimed ==
    (run >= 2 /\ Scanned /\ today = prev_today + 1) =>
        \A c \in prev_saved : ScanEntry(c).res.stage = c.new_follow_up_stage

\* The stage cell of row i of sheet k of a workbook: the one under the
\* follow-up stage header.
StageCell(file, k, i) ==
    file.sheets[k].rows[i][IndexIn(ColFollowUpStage, file.sheets[k].header)]
EmailCell(file, k, i) ==
    file.sheets[k].rows[i][IndexIn(ColContactEmail, file.sheets[k].header)]

\* C9 as claimed: within a run the stored stage of a row stays as it was or grows
\* by exactly one, and it grows only when the row's recipient was sent a message
\* in that run.
C9_AsClaimed ==
    \A p \in Paths : \A k \in 1..Len(files[p].sheets) :
        \A i \in 1..Len(files[p].sheets[k].rows) :
            LET old == StageCell(files0[p], k, i)
                new == StageCell(files[p], k, i)
            IN  \/ new = old
                \/ /\ old.k = "num" /\ new.k = "num"
                   /\ new.n = old.n + 1
                   /\ ContactEmailOf(EmailCell(files0[p], k, i)) \in Range(delivered)

\* A step of the retry loop that calls Outlook for the current recipient.
AttemptStep == pc = "send_loop" /\ transport_calls' = transport_calls + 1

\* What send_consolidated_emails has returned in a live run: per recipient,
\* all of its candidates when it was sent, none when it was dropped, and with
\* Outlook available every recipient is one or the other.
AllOrNothing ==
    (LiveRun /\ pc \in {"update_excel_sheets", "update_loop", "done"} /\ ~crashed) =>
        \A i \in 1..Len(grouped) :
            /\ grouped[i].email \in Range(delivered) =>
                   \A c \in Range(grouped[i].proposals) : c \in Range(successful)
            /\ grouped[i].email \in dropped =>
                   \A c \in Range(grouped[i].proposals) : c \notin Range(successful)
            /\ grouped[i].email \notin Range(delivered) =>
                   \A c \in Range(grouped[i].proposals) : c \notin Range(successful)
            /\ outlook = "app" =>
                   (grouped[i].email \in Range(delivered)) # (grouped[i].email \in dropped)

\* C10: in a live run every recipient gets at most MaxEmailSendAttempts send
\* attempts and none once a send succeeded, and the returned list holds all of a
\* recipient's candidates when an attempt succeeded and none when all failed.
C10_BoundedAtomicSend ==
    [][/\ AttemptStep => /\ attempt + 1 <= cfg.MaxEmailSendAttempts
                         /\ grouped[bucket].email \notin Range(delivered)
       /\ AllOrNothing']_vars

\* With three attempts allowed, one recipient was sent its message on a retry
\* and another was dropped after the third failure.
C10_Witness ==
    /\ LiveRun /\ pc = "update_excel_sheets"
    /\ cfg.MaxEmailSendAttempts = 3
    /\ dropped # {} /\ delivered # <<>>
    /\ transport_calls = 1 + 3 + 2
    /\ \E i \in 1..Len(grouped) : grouped[i].email \in dropped
    /\ Len(successful) >= 1

\* The send phase of a live run with Outlook available is over.
SendOver == LiveRun /\ outlook = "app" /\ pc \in {"update_excel_sheets", "update_loop", "done"}

\* The rows the scan queued for a recipient, in the order it met them.
QueuedFor(email) ==
    SelectSeq(scan_log, LAMBDA e : e.res.outcome = "queued" /\ e.res.email = email)

\* The project cell of the sheet row behind a scan entry, as stored.
ProjectCell(e) ==
    LET sh == SheetNamed(files0[e.path], e.sheet_name)
    IN  sh.rows[e.index + 1][IndexIn(ColProjectName, sh.header)].s

\* The stored contact email of the sheet row behind a scan entry.
StoredEmail(e) ==
    LET sh == SheetNamed(files0[e.path], e.sheet_name)
    IN  sh.rows[e.index + 1][IndexIn(ColContactEmail, sh.header)].s

ExpectedSubject(names) ==
    CASE Len(names) = 1 -> [template |-> "SingleProject", names |-> <<names[1]>>]
      [] Len(names) = 2 -> [template |-> "TwoProjects", names |-> <<names[1], names[2]>>]
      [] Len(names) >= 3 -> [template |-> "MultipleProjects", names |-> <<names[1]>>]

\* C11: the queued rows whose stored emails are equal after trimming and
\* lowercasing get exactly one message in the run; its subject is the single,
\* two-project or multiple-projects one for 1, 2 or at least 3 rows (the last
\* naming the first project only), and its body lists the rows' projects in the
\* order the scan met them.
C11_OneMessagePerBucket ==
    SendOver =>
        /\ \A e \in Range(scan_log) : e.res.outcome = "queued" =>
               Cardinality({i \in 1..Len(rendered) :
                               rendered[i].to = Lower(Strip(StoredEmail(e)))}) = 1
        /\ \A i \in 1..Len(rendered) :
               LET rows == QueuedFor(rendered[i].to)
                   names == [k \in 1..Len(rows) |-> ProjectCell(rows[k])]
               IN  /\ Len(rows) >= 1
                   /\ rendered[i].subject = ExpectedSubject(names)
                   /\ [k \in 1..Len(rendered[i].items) |-> rendered[i].items[k].project_name]
                          = names
        /\ \A i, j \in 1..Len(delivered) : delivered[i] = delivered[j] => i = j

\* Four rows of two workbooks, one of them storing the address in capitals and
\* with blanks around it, went out as one message with the multiple-projects
\* subject naming P1 and the items P1, P2, P6, P3; the row scanned between them for
\* another recipient went out alone, with the single-project subject.
C11_Witness ==
    /\ SendOver /\ run = 1
    /\ Len(rendered) = 2
    /\ rendered[1].to = EmailA
    /\ rendered[1].subject = [template |-> "MultipleProjects", names |-> <<P1>>]
    /\ Len(rendered[1].items) = 4
    /\ [k \in 1..4 |-> rendered[1].items[k].project_name] = <<P1, P2, P6, P3>>
    /\ rendered[2].to = EmailB
    /\ rendered[2].subject = [template |-> "SingleProject", names |-> <<P5>>]
    /\ delivered = <<EmailA, EmailB>>
    /\ \E e \in Range(scan_log) : StoredEmail(e) = EmailAMixed

\* C12 as claimed: at the end of a live run, a cell of a store that differs
\* from what it was when the run started is the last-correspondence cell, now
\* holding today's date, or the stage cell, now holding the next stage, of the
\* sheet row of a candidate that was notified in the run, whatever other columns
\* the sheet has.
C12_AsClaimed ==
    (RunOver /\ LiveRun) =>
        \A p \in Paths : \A k \in 1..Len(files[p].sheets) :
            \A i \in 1..Len(files[p].sheets[k].rows) :
                \A j \in 1..Len(files[p].sheets[k].header) :
                    files[p].sheets[k].rows[i][j] # files0[p].sheets[k].rows[i][j] =>
                        \E c \in Range(successful) :
                            /\ c.workbook_path = p
                            /\ c.sheet_name = files[p].sheets[k].name
                            /\ c.row_index_df = i - 1
                            /\ \/ /\ files[p].sheets[k].header[j] = ColLastCorrespondence
                                  /\ files[p].sheets[k].rows[i][j] = Text(StrfMDY(today))
                               \/ /\ files[p].sheets[k].header[j] = ColFollowUpStage
                                  /\ files[p].sheets[k].rows[i][j] = Num(c.new_follow_up_stage)

\* The instances between a successful create_lock_file and the end of their
\* remove_lock_file.
Holders == {i \in Instances : inst[i].pc \in Phases \cup {"finally"}}

\* C14: at most one instance at a time is between a successful
\* create_lock_file and its remove_lock_file; an instance whose acquisition
\* fails enters no phase and leaves the lock file as it is, and the lock file
\* only goes away in the remove_lock_file of the instance that holds it.
C14_OneHolder ==
    [][/\ Cardinality(Holders') <= 1
       /\ \A i \in Instances :
             /\ (inst[i].pc = "create_lock_file" /\ inst'[i].pc = "exit_1") =>
                    /\ lock_file' = lock_file
                    /\ inst'[i].started = <<>>
             /\ inst[i].pc = "exit_1" =>
                    (inst'[i].pc = "exit_1" => inst'[i].started = <<>> /\ ~inst'[i].lock_file_handle)
       /\ (lock_file /\ ~lock_file') =>
             \E i \in Holders : inst[i].pc = "finally" /\ inst'[i].pc = "done"]_vars

\* One instance is in the send phase while the other, started meanwhile, has
\* exited without entering a phase, and the lock file is still there.
C14_Witness ==
    /\ inst[1].pc = "send_consolidated_emails"
    /\ inst[2].pc = "exit_1" /\ inst[2].started = <<>>
    /\ lock_file

\* An instance ends its remove_lock_file having run the phases of main's try
\* block in order, up to the one that raised, or all of them when none raised.
EndsInOrder(i) ==
    /\ inst'[i].started = SubSeq(PhaseOrder, 1, Len(inst'[i].started))
    /\ IF inst'[i].raised = ""
       THEN inst'[i].started = PhaseOrder
       ELSE inst'[i].started[Len(inst'[i].started)] = inst'[i].raised

Terminates(i) == inst[i].pc = "finally" /\ inst'[i].pc = "done"

\* C15 as claimed: an instance that acquired the lock terminates with the lock
\* file removed, after all phases or after the phase that raised, and no phase
\* runs after one that raised.
C15_AsClaimed ==
    [][\A i \in Instances : Terminates(i) => (~lock_file' /\ EndsInOrder(i))]_vars

\* C15, amended: an instance that acquired the lock runs remove_lock_file
\* before it terminates, after all phases or after the phase that raised, and
\* no phase runs after one that raised; the lock file is then gone unless
\* os.remove raised. An instance ends normally only through remove_lock_file.
C15_LockReleased ==
    [][\A i \in Instances :
          /\ Terminates(i) =>
                /\ ~lock_file' \/ inst'[i].remove_raised
                /\ ~inst'[i].lock_file_handle
                /\ EndsInOrder(i)
          /\ (inst[i].pc \in Phases /\ inst'[i].pc \notin Phases) => inst'[i].pc = "finally"]_vars

\* An instance whose scan raised has ended with the lock file removed, having
\* entered neither the send phase nor the update phase.
C15_Witness ==
    /\ inst[1].pc = "done"
    /\ inst[1].raised = "process_proposals"
    /\ inst[1].started = <<"initialize_outlook", "process_proposals">>
    /\ ~inst[1].remove_raised
    /\ ~lock_file
    /\ inst[2].pc = "create_lock_file" /\ inst[2].invocation = 1

\* C16 as claimed: a record with a valid submission date, a usable email, no
\* disposition flag and an empty stage cell is evaluated as stage 0: once its
\* reference date is DaysFirstFollowUp days old it is emitted with snippet index
\* 0 and next stage 1.
C16_AsClaimed ==
    (/\ Scanned /\ ProbeHasDate /\ ProbeUsableEmail /\ ~ProbeFlagged
     /\ probe.stage_kind = "nan"
     /\ today - (IF ProbeHasLast THEN probe.last_day ELSE probe.sub_day)
            >= cfg.DaysFirstFollowUp) =>
        /\ ProbeEmitted
        /\ ProbeCandidate.email_snippet_key = 0
        /\ ProbeCandidate.new_follow_up_stage = 1

\* What the probe's email cell holds once trimmed and lowercased: nothing, a
\* text with an "@", a text with a "." (an empty cell is read as NaN and turns
\* into the text "nan").
ProbeEmailEmpty  == probe.email = "blank"
ProbeEmailHasAt  == probe.email \in {"a", "mixed", "nodot"}
ProbeEmailHasDot == probe.email \in {"a", "mixed", "noat"}
ProbeEmailKey    == IF probe.email = "nodot" THEN EmailNoDot ELSE EmailA

\* The probe is due: its stage is a number, it has no disposition flag, and its
\* reference date is as old as the threshold of its stage asks.
ProbeDue ==
    /\ ~ProbeFlagged /\ probe.stage_kind = "num"
    /\ IF probe.stage = 0
       THEN today - (IF ProbeHasLast THEN probe.last_day ELSE probe.sub_day)
                >= cfg.DaysFirstFollowUp
       ELSE ProbeHasLast /\ today - probe.last_day >= cfg.DaysSubsequentFollowUps

\* The probe's candidate is in the bucket of an email.
ProbeEmittedUnder(email) ==
    \E i \in 1..Len(grouped) :
        /\ grouped[i].email = email
        /\ \E c \in Range(grouped[i].proposals) :
              c.workbook_path = LogPath("2024") /\ c.sheet_name = "January" /\ c.row_index_df = 0

\* C17 as claimed: a record with a valid submission date is rejected for its
\* email iff the trimmed, lowercased email is empty or has no "@", and a due
\* record whose email has an "@" is emitted under that email.
C17_AsClaimed ==
    (Scanned /\ ProbeHasDate) =>
        /\ scan_log[1].res.outcome = "invalid_email" <=> (ProbeEmailEmpty \/ ~ProbeEmailHasAt)
        /\ (ProbeDue /\ ProbeEmailHasAt) => ProbeEmittedUnder(ProbeEmailKey)

\* C17, amended: a record with a valid submission date is rejected for its
\* email iff the trimmed, lowercased email is empty, has no "@" or has no ".",
\* and a due record whose email has both is emitted under that email.
C17_EmailNeedsAtAndDot ==
    (Scanned /\ ProbeHasDate) =>
        /\ scan_log[1].res.outcome = "invalid_email"
              <=> (ProbeEmailEmpty \/ ~ProbeEmailHasAt \/ ~ProbeEmailHasDot)
        /\ (ProbeDue /\ ProbeEmailHasAt /\ ProbeEmailHasDot) => ProbeEmittedUnder(ProbeEmailKey)

\* A due stage-0 record whose email c@xco has an "@" and no "." was rejected
\* for its email, and the row after it was queued.
C17_Witness ==
    /\ Scanned /\ ProbeHasDate /\ ProbeDue
    /\ probe.email = "nodot" /\ probe.stage = 0
    /\ scan_log[1].res.outcome = "invalid_email"
    /\ ~ProbeEmitted
    /\ FollowerEmitted

\* The first data row of sheet January of the 2024 workbook, as stored when the
\* run started, has an empty stage cell: int() raises on it at line 196.
SecondRowRaises ==
    LET sh == SheetNamed(files0[LogPath("2024")], "January")
    IN  sh.rows[1][IndexIn(ColFollowUpStage, sh.header)] = Nan

\* The stores of the start of the run with every cell of that row emptied.
WithoutSecondRow ==
    [files0 EXCEPT ![LogPath("2024")].sheets =
        [k \in 1..Len(@) |->
            IF @[k].name = "January"
            THEN [@[k] EXCEPT !.rows[1] = [j \in 1..Len(@) |-> Nan]]
            ELSE @[k]]]

\* C18: a row whose processing raises is skipped and nothing else changes: the
\* scan returns, and the mapping it returns is the one it returns for the same
\* stores with that row empty, so that the rows before and after it, in its
\* sheet, in the other sheets and in the other workbook, are emitted as without
\* it; these are the rows around it, all of them due, the one of sheet February
\* of its workbook provided that sheet has every required column.
C18_RowErrorIsolated ==
    (Scanned /\ SecondRowRaises) =>
        /\ ~crashed
        /\ ~Emitted(grouped, LogPath("2024"), "January", 0)
        /\ grouped = process_proposals(cfg, today, WithoutSecondRow)
        /\ files0[LogPath("2024")].sheets[1].header = LayoutRight
               => Emitted(grouped, LogPath("2024"), "February", 0)
        /\ Emitted(grouped, LogPath("2024"), "January", 1)
        /\ Emitted(grouped, LogPath("2025"), "February", 0)
        /\ Emitted(grouped, LogPath("2025"), "January", 0)

\* The row with the empty stage cell was logged as an error between a queued
\* row of the sheet before it and queued rows after it, in its own sheet and in
\* the two sheets of the other workbook.
C18_Witness ==
    /\ Scanned /\ SecondRowRaises
    /\ [k \in 1..Len(scan_log) |-> scan_log[k].res.outcome]
          = <<"queued", "error", "queued", "queued", "queued">>
    /\ [k \in 1..Len(scan_log) |-> scan_log[k].sheet_name]
          = <<"February", "January", "January", "February", "January">>
    /\ Len(Flatten(grouped, 1)) = 4

\* The notified candidates of a workbook.
NotifiedIn(path) == {c \in Range(successful) : c.workbook_path = path}

\* No sheet of the file at path differs from what the file held when the run
\* started (sheets may have been deleted from it by someone else).
NothingPersisted(path) ==
    /\ path \notin saved
    /\ Range(files[path].sheets) \subseteq Range(files0[path].sheets)

\* C19: in a live run, every workbook holding a notified candidate gets its pass
\* of the update loop, whatever happened to the workbooks before it; a workbook
\* whose backup, load or save raised has none of the run's values on disk; in a
\* workbook that was saved, the candidates of a sheet it no longer has are not
\* written, and those of its other sheets are written and on disk.
C19_StoreFailureIsolated ==
    (RunOver /\ LiveRun) =>
        /\ \A c \in Range(successful) :
               \E k \in 1..Len(update_log) : update_log[k].path = c.workbook_path
        /\ \A k \in 1..Len(update_log) :
               LET path == update_log[k].path IN
               IF update_log[k].outcome # "saved"
               THEN NothingPersisted(path)
               ELSE \A c \in NotifiedIn(path) :
                       IF c.sheet_name \in SheetNames(files[path])
                       THEN RowWritten(c) /\ RowPersisted(c)
                       ELSE ~RowWritten(c)

\* The update of the 2024 workbook failed with candidates to write; the 2025
\* workbook, which had lost its sheet February since the scan, was then saved
\* with the row of its sheet January written and that of February not.
C19_Witness ==
    /\ RunOver /\ LiveRun
    /\ Len(update_log) = 2
    /\ update_log[1].path = LogPath("2024") /\ update_log[1].outcome # "saved"
    /\ NotifiedIn(LogPath("2024")) # {}
    /\ NothingPersisted(LogPath("2024"))
    /\ update_log[2] = [path |-> LogPath("2025"), outcome |-> "saved"]
    /\ "February" \notin SheetNames(files[LogPath("2025")])
    /\ \E c \in NotifiedIn(LogPath("2025")) : c.sheet_name = "February" /\ ~RowWritten(c)
    /\ \E c \in NotifiedIn(LogPath("2025")) :
          c.sheet_name = "January" /\ RowWritten(c) /\ RowPersisted(c)

\* The header row of a stored sheet names every required column.
HeaderComplete(sh) == \A c \in RequiredSet : \E j \in 1..Len(sh.header) : sh.header[j] = c

\* The month sheets of the stores, as the run found them, that lack a column.
IncompleteSections ==
    UNION {{[path |-> path, sheet_name |-> sh.name] :
               sh \in {x \in Range(files0[path].sheets) :
                          x.name \in valid_months_list /\ ~HeaderComplete(x)}} :
           path \in Paths}

\* C20: a month sheet lacking a required column yields no candidate, and every
\* row of the other month sheets, of its workbook and of the other one, is
\* scanned as usual: here each of them with a stage is due and is emitted.
C20_IncompleteSectionSkipped ==
    Scanned =>
        \A path \in Paths : \A k \in 1..Len(files0[path].sheets) :
            LET sh == files0[path].sheets[k] IN
            \A i \in 1..Len(sh.rows) :
                Emitted(grouped, path, sh.name, i - 1)
                    <=> /\ sh.name \in valid_months_list
                        /\ HeaderComplete(sh)
                        /\ sh.rows[i][IndexIn(ColFollowUpStage, sh.header)] # Nan

\* Sheet February of the 2024 workbook lacks a required column and gave no
\* candidate; the sheet after it in that workbook and both sheets of the 2025
\* workbook gave theirs.
C20_Witness ==
    /\ Scanned
    /\ IncompleteSections = {[path |-> LogPath("2024"), sheet_name |-> "February"]}
    /\ ~Emitted(grouped, LogPath("2024"), "February", 0)
    /\ Emitted(grouped, LogPath("2024"), "January", 0)
    /\ Emitted(grouped, LogPath("2024"), "January", 1)
    /\ Emitted(grouped, LogPath("2025"), "February", 0)
    /\ Emitted(grouped, LogPath("2025"), "January", 0)

\* The workbook a step saves, if any.
SavedByStep(path) == path \in saved' /\ path \notin saved

\* The passes of the update loop of this run for a workbook.
PassesFor(path) == {k \in 1..Len(update_log) : update_log[k].path = path}

\* C21: in a live run with the backup setting on, the step that saves a workbook
\* leaves in its .bak copy what the file held on disk before the step, without
\* any of the values the step saves; it is the only pass of the run for that
\* workbook, the saved file holds the values of every ws.cell call of the run
\* for it, and no ws.cell call is made for it afterwards.
C21_BackupBeforeSave ==
    [][(~cfg.DryRun /\ cfg.BackupExcelBeforeSave) =>
          \A path \in Paths :
              /\ SavedByStep(path) =>
                     /\ backups'[path] = [made |-> TRUE, sheets |-> files[path].sheets]
                     /\ PassesFor(path) = {}
                     /\ \A w \in cell_writes' :
                            w.path = path =>
                                CellAt(files'[path], w.sheet, w.row, w.column) = w.value
              /\ (path \in saved /\ run' = run) =>
                     /\ {w \in cell_writes' : w.path = path}
                            = {w \in cell_writes : w.path = path}
                     /\ path \in saved' => files'[path] = files[path]]_vars

\* Both workbooks were saved, each in its only pass, and each backup differs
\* from the saved file: rows of two sheets of the 2024 workbook were written
\* after the copy was taken.
C21_Witness ==
    /\ RunOver /\ LiveRun /\ cfg.BackupExcelBeforeSave
    /\ saved = Paths
    /\ [k \in 1..Len(update_log) |-> update_log[k].outcome] = <<"saved", "saved">>
    /\ \A path \in Paths : /\ backups[path].made
                            /\ backups[path].sheets # files[path].sheets
    /\ backups[LogPath("2024")].sheets = files0[LogPath("2024")].sheets
    /\ \E c \in NotifiedIn(LogPath("2024")) : c.sheet_name = "February" /\ RowPersisted(c)
    /\ \E c \in NotifiedIn(LogPath("2024")) : c.sheet_name = "January" /\ RowPersisted(c)

\* C22 as claimed: a row notified in a live run whose workbook that run saved is
\* not emitted by the scan of the next run when that run is on the same day and
\* DaysSubsequentFollowUps is at least 1.
C22_AsClaimed ==
    (run > 1 /\ Scanned /\ today = prev_today /\ cfg.DaysSubsequentFollowUps >= 1) =>
        \A c \in prev_saved :
            ~Emitted(grouped, c.workbook_path, c.sheet_name, c.row_index_df)

\* Outlook could not be initialised in this live run: line 99 set outlook = None.
OutlookUnavailable == LiveRun /\ outlook = "none"

\* C23: in a live run in which Outlook could not be initialised, the only
\* Outlook call is the failed Dispatch: no message is composed, no send is
\* attempted, the list returned for the update is empty, no workbook is visited,
\* no cell is written, nothing is saved and the files stay as the run found them.
C23_NoTransportNoWrites ==
    OutlookUnavailable =>
        /\ transport_calls = 1
        /\ pc # "send_loop"
        /\ rendered = <<>>
        /\ delivered = <<>> /\ dropped = {}
        /\ successful = <<>>
        /\ pc # "update_loop" /\ update_log = <<>>
        /\ cell_writes = {} /\ cell_errors = {}
        /\ saved = {} /\ backups = NoBackups
        /\ files = files0
        /\ ~crashed

\* Such a run has ended, and its scan had found due rows for two recipients.
C23_Witness ==
    /\ OutlookUnavailable /\ RunOver
    /\ Len(grouped) = 2
    /\ successful = <<>>
    /\ files = files0

====
